---- MODULE Spec2Model ----
(***************************************************************************)
(* Deadline & notification core of the course-management backend.          *)
(*                                                                         *)
(* The specifications share the variables of this module:                  *)
(*   Spec        the HTTP handlers of the activity log (POST /, PUT /:id,  *)
(*               PATCH /:id/submit) running concurrently against the       *)
(*               activity_trackers table, with the wall clock;             *)
(*   SpecEmail, SpecReminder, SpecAlert                                    *)
(*               one Bull queue of notificationService.js each, with its   *)
(*               processor (send-email, facilitator-reminder,              *)
(*               manager-alert), its callers and the rows it reads.  The   *)
(*               send-email jobs a reminder or an alert adds stay waiting  *)
(*               there: the delivery worker is the subject of SpecEmail.   *)
(*                                                                         *)
(* Time is counted in days since a Sunday: every deadline of the program   *)
(* lies a whole number of days after the instant it is computed at, so     *)
(* the time of day never decides a comparison.                             *)
(***************************************************************************)
EXTENDS Integers, Sequences, FiniteSets, Bags, TLC

VARIABLES
    now,        \* the wall clock read by new Date()
    db,         \* activity_trackers rows, by primary key
    req,        \* the HTTP requests: position, arguments, loaded instance
    jobs,       \* every Bull job ever added, in order of add()
    userActive, \* users.isActive of each manager's user row
    allocs,     \* ids of the course_offerings rows that exist
    notifLog,   \* the notification_log:* keys written by setEx, a bag
    recent,     \* the Redis list recent_notifications, head first
    createdAt,  \* activity_trackers.createdAt of each row
    sched,      \* the runs of the recurring jobs: how many, and the last one
    logCalls,   \* the calls of logNotification in progress
    calc,       \* an ActivityTracker instance and the last value computed on it
    offerings,  \* course_offerings rows, by primary key
    creq        \* the HTTP requests on /api/course-allocations

vars == <<now, db, req, jobs, userActive, allocs, notifLog, recent,
          createdAt, sched, logCalls, calc, offerings, creq>>

----------------------------------------------------------------------------
(* Bounds of the model *)

MaxDay == 3         \* the clock stops on this day (day 0 is a Sunday)
MaxRecs == 2        \* rows of activity_trackers
MaxReqs == 2        \* HTTP requests in one behaviour

(* Program constants *)

NULL == -1          \* submittedAt: allowNull
DaysPerWeek == 7
GraceDays == 9
MaxWeek == 20
MinWeek == 1

RecIds == 1..MaxRecs
ReqIds == 1..MaxReqs
FacilitatorIds == {1, 2}
AllocIds == {1, 2}

(* course_offerings.facilitatorId of the seeded offerings *)
AllocFacilitator(a) == IF a = 1 THEN 1 ELSE 2

(* Values a client can put in weekNumber, and in submittedAt *)
WeekInputs == {0, 1, MaxWeek + 1}
ClientTimes == {0}

Callers ==
    {[role |-> "manager", fac |-> 0]} \cup
    {[role |-> "facilitator", fac |-> f] : f \in FacilitatorIds}

----------------------------------------------------------------------------
(* Date arithmetic of the ActivityTracker model *)

\* Date.prototype.getDay(): 0 is Sunday
getDay(t) == t % DaysPerWeek

\* a deadline that forgets the two days of grace
getDeadlineNoGrace(weekNumber, t) ==
    LET weekStart == t - getDay(t) + (weekNumber - 1) * DaysPerWeek
    IN  weekStart + DaysPerWeek

\* ActivityTracker.prototype.getDeadline, evaluated when the clock reads t
getDeadline(weekNumber, t) ==
    LET weekStart == t - getDay(t) + (weekNumber - 1) * DaysPerWeek
    IN  weekStart + GraceDays

\* an overdue test that skips the check of submittedAt
isOverdueIgnoringSubmission(submittedAt, weekNumber, t1, t2) ==
    LET weekStart == t1 - getDay(t1) + (weekNumber - 1) * DaysPerWeek
        deadline  == weekStart + GraceDays
    IN  t2 > deadline

\* ActivityTracker.prototype.isOverdue: t1 is the clock read that builds
\* weekStart, t2 the later read that is compared with the deadline
isOverdue(submittedAt, weekNumber, t1, t2) ==
    IF submittedAt # NULL
    THEN FALSE
    ELSE LET weekStart == t1 - getDay(t1) + (weekNumber - 1) * DaysPerWeek
             deadline  == weekStart + GraceDays
         IN  t2 > deadline

----------------------------------------------------------------------------
(* Rows and requests *)

NoRow == [exists |-> FALSE, allocationId |-> 0, facilitatorId |-> 0,
          weekNumber |-> 0, submittedAt |-> NULL]

\* seed.js: one activity log that is not submitted yet
SeedRow == [exists |-> TRUE, allocationId |-> 1, facilitatorId |-> 1,
            weekNumber |-> 3, submittedAt |-> NULL]

NoBody == [setWeek |-> FALSE, weekNumber |-> 0, setSub |-> FALSE, submittedAt |-> NULL,
           allocationId |-> 0, facilitatorId |-> 0]

NoCaller == [role |-> "none", fac |-> 0]

IdleReq == [pc |-> "idle", kind |-> "none", caller |-> NoCaller, id |-> 0,
            body |-> NoBody, inst |-> NoRow, status |-> 0]

\* a request that has responded keeps its route, its row id and its
\* status, and PATCH /:id/submit the caller it answered
Done(kind, caller, id, st) ==
    [IdleReq EXCEPT !.pc = "done", !.kind = kind, !.caller = caller, !.id = id,
                    !.status = st]

\* req.body of PUT /:id: any subset of the columns, unvalidated
PutBodies ==
    {[NoBody EXCEPT !.setWeek = TRUE, !.weekNumber = w] : w \in WeekInputs} \cup
    {[NoBody EXCEPT !.setSub = TRUE, !.submittedAt = s] : s \in {NULL} \cup ClientTimes} \cup
    {NoBody}

\* req.body of POST /
PostBodies ==
    {[NoBody EXCEPT !.setWeek = TRUE, !.weekNumber = w, !.allocationId = a,
                    !.facilitatorId = f] :
        w \in WeekInputs, a \in AllocIds \cup {3}, f \in {1}}

\* a table without the unique index
UniqueViolationNever(r, a, w) == FALSE

\* the unique index unique_allocation_week, seen by row id r taking (a, w)
UniqueViolation(r, a, w) ==
    \E o \in RecIds : o # r /\ db[o].exists /\ db[o].allocationId = a /\ db[o].weekNumber = w

\* a facilitator may only touch its own activity logs
AccessDenied(caller, row) ==
    caller.role = "facilitator" /\ row.facilitatorId # caller.fac

----------------------------------------------------------------------------
(* Rows' timestamps, scheduler runs, log calls, instances *)

\* seed.js: bulkCreate stamps createdAt when the database is seeded, here
\* thirteen days before day 0
SeedCreatedAt == -13

\* a threshold of two weeks without the days of grace
OverdueAgeDaysTwoWeeks == 2 * DaysPerWeek

\* ActivityTracker.findOverdue: twoWeeksAgo.setDate(getDate() - 16)
OverdueAgeDays == 16

\* a window of a week and a day
DueSoonDaysLong == DaysPerWeek + 1

\* sendWeeklyDeadlineReminders: daysUntilDeadline <= 3
DueSoonDays == 3

\* no recurring job has run yet.  A run leaves its kind, the row ids its
\* query returned, the length of the queue before it, how it ended, and
\* the day it ran on
NoRun == [n |-> 0, kind |-> "none", scan |-> {}, first |-> 0, ext |-> "ok", day |-> 0]

MaxLogCalls == 2        \* calls of logNotification in one behaviour
LogCallIds == 1..MaxLogCalls

\* a call of logNotification that has not started
Undefined == 0
NoData0 == [type |-> "none", status |-> "none", recipient |-> 0, messageId |-> Undefined,
            timestamp |-> 0]
IdleCall == [pc |-> "idle", data |-> NoData0, out |-> "none", pushed |-> 0]

\* the ENUM of the six task columns
Statuses == {"Done", "Pending", "Not Started"}

\* the six task columns, in the order getOverallProgress lists them
TaskFields == 1..6

\* the value a method returned: a percentage is the quotient num / den
NoResult == [fn |-> "none", completed |-> 0, pending |-> 0, notStarted |-> 0,
             total |-> 0, num |-> 0, den |-> 1, bool |-> FALSE, threw |-> FALSE,
             date |-> 0,
             totalLogs |-> 0, submittedOnTime |-> 0, submittedLate |-> 0, overdue |-> 0]

\* seed.js: the pending activity log of week 3
SeedCalc == [tasks |-> <<"Pending", "Not Started", "Not Started", "Pending", "Done", "Pending">>,
             hasAttendance |-> TRUE,
             attendance |-> <<TRUE, TRUE, TRUE, FALSE, TRUE>>,
             weekNumber |-> 3, submittedAt |-> NULL,
             out |-> NoResult]

----------------------------------------------------------------------------
(* Bull jobs *)

MaxEmailJobs == 2       \* send-email jobs added by callers of queueEmail
MaxReminderJobs == 2    \* facilitator-reminder jobs added
MaxAlertJobs == 1       \* manager-alert jobs added

DefaultEmailAttempts == 3
ReminderAttempts == 2
AlertAttempts == 2

NoRecipient == <<"none", 0>>
NoText == [week |-> 0, module |-> 0, cohort |-> 0, class |-> 0]

\* a job as add() stores it.  parent (the job whose processor added it),
\* by (the request that added it), snap (the managers loaded by the last
\* attempt) and logErrs (log writes lost to a storage error) are history.
NewJob(name, maxAttempts) ==
    [name |-> name, type |-> "", to |-> NoRecipient, text |-> NoText,
     facilitatorId |-> 0, allocationId |-> 0, weekNumber |-> 0,
     attempts |-> maxAttempts, attemptsMade |-> 0, state |-> "waiting",
     parent |-> 0, by |-> 0, snap |-> {}, logErrs |-> 0,
     count |-> 0, facilitators |-> 0]

\* a dispatcher that drops the message
queueEmailDropped(q, to, type, text, optAttempts, parent) == q

\* queueEmail(emailData, options): attempts: options.attempts || 3
queueEmail(q, to, type, text, optAttempts, parent) ==
    Append(q, [NewJob("send-email", IF optAttempts # 0 THEN optAttempts
                                    ELSE DefaultEmailAttempts) EXCEPT
                 !.to = to, !.type = type, !.text = text, !.parent = parent])

\* a reminder that loses the week it is about
queueFacilitatorReminderNoWeek(q, facilitatorId, weekNumber, allocationId) ==
    Append(q, [NewJob("facilitator-reminder", ReminderAttempts) EXCEPT
                 !.facilitatorId = facilitatorId, !.allocationId = allocationId])

\* queueFacilitatorReminder(facilitatorId, weekNumber, allocationId)
queueFacilitatorReminder(q, facilitatorId, weekNumber, allocationId) ==
    Append(q, [NewJob("facilitator-reminder", ReminderAttempts) EXCEPT
                 !.facilitatorId = facilitatorId, !.weekNumber = weekNumber,
                 !.allocationId = allocationId])

\* the data of an alert: weekNumber of a late submission, count and
\* facilitators of an overdue or critical-deadline summary
NoData == [weekNumber |-> 0, count |-> 0, facilitators |-> 0]

\* queueManagerAlert(type, data): `by` records the request that called it
queueManagerAlert(q, type, data, by) ==
    Append(q, [NewJob("manager-alert", AlertAttempts) EXCEPT
                 !.type = type, !.weekNumber = data.weekNumber, !.count = data.count,
                 !.facilitators = data.facilitators, !.by = by])

----------------------------------------------------------------------------
(* PATCH /:id/submit *)

\* a handler without the guard
AlreadySubmittedNever(row) == FALSE

\* the handler's guard against a second submission: if (activity.submittedAt)
AlreadySubmitted(row) == row.submittedAt # NULL

\* a submit() that compares and swaps at the storage layer
submitIfNull(rows, id, t) ==
    IF rows[id].submittedAt = NULL THEN [rows EXCEPT ![id].submittedAt = t] ELSE rows

\* ActivityTracker.prototype.submit: this.submittedAt = new Date(), then
\* save(), an UPDATE of the changed column of row id whatever it holds
submit(rows, id, t) == [rows EXCEPT ![id].submittedAt = t]

\* findByPk and the checks that follow it without an await
SubmitStart(q, caller, id) ==
    /\ req[q].pc = "idle"
    /\ LET row == db[id]
           st  == IF ~row.exists THEN 404
                  ELSE IF AccessDenied(caller, row) THEN 403
                  ELSE IF AlreadySubmitted(row) THEN 400
                  ELSE 0
       IN req' = [req EXCEPT ![q] =
                    IF st # 0 THEN Done("submit", caller, id, st)
                    ELSE [IdleReq EXCEPT !.kind = "submit", !.id = id, !.inst = row,
                                         !.pc = "submit"]]
    /\ UNCHANGED <<now, db, jobs, userActive, allocs, notifLog, recent,
                   createdAt, sched, logCalls, calc, offerings, creq>>

\* activity.submit(), then the late check on the instance just saved
SubmitSave(q) ==
    /\ req[q].pc = "submit"
    /\ LET inst2 == [req[q].inst EXCEPT !.submittedAt = now]
       IN /\ db' = submit(db, req[q].id, now)
          /\ req' = [req EXCEPT ![q].inst = inst2, ![q].pc = "respond"]
          /\ jobs' = IF isOverdue(inst2.submittedAt, inst2.weekNumber, now, now)
                     THEN queueManagerAlert(jobs, "late-submission",
                                            [NoData EXCEPT !.weekNumber = inst2.weekNumber], q)
                     ELSE jobs
    /\ UNCHANGED <<now, userActive, allocs, notifLog, recent,
                   createdAt, sched, logCalls, calc, offerings, creq>>

----------------------------------------------------------------------------
(* PUT /:id *)

PutStart(q, caller, id, body) ==
    /\ req[q].pc = "idle"
    /\ LET row == db[id]
           st  == IF ~row.exists THEN 404
                  ELSE IF AccessDenied(caller, row) THEN 403
                  ELSE 0
       IN req' = [req EXCEPT ![q] =
                    IF st # 0 THEN Done("put", NoCaller, id, st)
                    ELSE [IdleReq EXCEPT !.kind = "put", !.id = id, !.body = body,
                                         !.inst = row, !.pc = "update"]]
    /\ UNCHANGED <<now, db, jobs, userActive, allocs, notifLog, recent,
                   createdAt, sched, logCalls, calc, offerings, creq>>

\* activity.update(req.body): the columns named in the body, nothing else
update(row, body) ==
    [row EXCEPT !.weekNumber  = IF body.setWeek THEN body.weekNumber ELSE @,
                !.submittedAt = IF body.setSub THEN body.submittedAt ELSE @]

PutUpdate(q) ==
    /\ req[q].pc = "update"
    /\ LET r == req[q]
           wasSubmitted == r.inst.submittedAt # NULL
           inst2 == update(r.inst, r.body)
       IN IF r.body.setWeek /\ r.body.weekNumber > MaxWeek
          THEN \* SequelizeValidationError: 'Week number cannot exceed 20'
               /\ req' = [req EXCEPT ![q] = Done("put", NoCaller, r.id, 400)]
               /\ UNCHANGED <<db, jobs>>
          ELSE IF r.body.setWeek /\ UniqueViolation(r.id, r.inst.allocationId, r.body.weekNumber)
          THEN \* SequelizeUniqueConstraintError
               /\ req' = [req EXCEPT ![q] = Done("put", NoCaller, r.id, 409)]
               /\ UNCHANGED <<db, jobs>>
          ELSE /\ db' = [db EXCEPT ![r.id] = update(@, r.body)]
               /\ req' = [req EXCEPT ![q].inst = inst2, ![q].body = NoBody,
                                     ![q].pc = "respond"]
               /\ jobs' = IF ~wasSubmitted /\ isOverdue(inst2.submittedAt, inst2.weekNumber, now, now)
                          THEN queueManagerAlert(jobs, "late-submission",
                                            [NoData EXCEPT !.weekNumber = inst2.weekNumber], q)
                          ELSE jobs
    /\ UNCHANGED <<now, userActive, allocs, notifLog, recent,
                   createdAt, sched, logCalls, calc, offerings, creq>>

\* a handler that awaits the outcome of the alert it enqueued, and reports
\* a failed delivery to its caller
RespondAfterDelivery(q) ==
    /\ req[q].pc = "respond"
    /\ \A j \in 1..Len(jobs) : jobs[j].by = q => jobs[j].state \in {"completed", "failed"}
    /\ req' = [req EXCEPT ![q] =
                 Done(req[q].kind, NoCaller, req[q].id,
                      IF \E j \in 1..Len(jobs) : jobs[j].by = q /\ jobs[j].state = "failed"
                      THEN 500 ELSE 200)]
    /\ UNCHANGED <<now, db, jobs, userActive, allocs, notifLog, recent,
                   createdAt, sched, logCalls, calc, offerings, creq>>

\* res.json(...) of PUT /:id and PATCH /:id/submit
Respond(q) ==
    /\ req[q].pc = "respond"
    /\ req' = [req EXCEPT ![q] = Done(req[q].kind, NoCaller, req[q].id, 200)]
    /\ UNCHANGED <<now, db, jobs, userActive, allocs, notifLog, recent,
                   createdAt, sched, logCalls, calc, offerings, creq>>

----------------------------------------------------------------------------
(* POST / *)

PostStart(q, caller, body) ==
    /\ req[q].pc = "idle"
    /\ LET data == [body EXCEPT !.facilitatorId =
                       IF caller.role = "facilitator" THEN caller.fac ELSE @]
           st == IF data.weekNumber < MinWeek \/ data.weekNumber > MaxWeek THEN 400
                 ELSE IF data.allocationId \notin allocs THEN 400
                 ELSE IF caller.role = "facilitator"
                         /\ AllocFacilitator(data.allocationId) # caller.fac THEN 403
                 ELSE IF \E o \in RecIds : /\ db[o].exists
                                           /\ db[o].allocationId = data.allocationId
                                           /\ db[o].weekNumber = data.weekNumber THEN 409
                 ELSE 0
       IN req' = [req EXCEPT ![q] =
                    IF st # 0 THEN Done("post", NoCaller, 0, st)
                    ELSE [IdleReq EXCEPT !.kind = "post", !.body = data, !.pc = "insert"]]
    /\ UNCHANGED <<now, db, jobs, userActive, allocs, notifLog, recent,
                   createdAt, sched, logCalls, calc, offerings, creq>>

\* ActivityTracker.create(activityData), which stamps createdAt, and the
\* 201 response
PostInsert(q) ==
    /\ req[q].pc = "insert"
    /\ LET b == req[q].body
           free == {r \in RecIds : ~db[r].exists}
       IN IF UniqueViolation(0, b.allocationId, b.weekNumber)
          THEN /\ req' = [req EXCEPT ![q] = Done("post", NoCaller, 0, 409)]
               /\ UNCHANGED <<db, createdAt>>
          ELSE /\ free # {}
               /\ LET r == CHOOSE x \in free : \A y \in free : x <= y
                      row == [exists |-> TRUE, allocationId |-> b.allocationId,
                              facilitatorId |-> b.facilitatorId,
                              weekNumber |-> b.weekNumber, submittedAt |-> b.submittedAt]
                  IN /\ db' = [db EXCEPT ![r] = row]
                     /\ createdAt' = [createdAt EXCEPT ![r] = now]
                     /\ req' = [req EXCEPT ![q] = Done("post", NoCaller, r, 201)]
    /\ UNCHANGED <<now, jobs, userActive, allocs, notifLog, recent,
                   sched, logCalls, calc, offerings, creq>>

----------------------------------------------------------------------------
\* the clock advances
Tick ==
    /\ now < MaxDay
    /\ now' = now + 1
    /\ UNCHANGED <<db, req, jobs, userActive, allocs, notifLog, recent,
                   createdAt, sched, logCalls, calc, offerings, creq>>

Managers == {1, 2}

----------------------------------------------------------------------------
(* course_offerings and facilitators *)

MaxOfferings == 3   \* rows of course_offerings
MaxCReqs == 2       \* requests on /api/course-allocations in one behaviour

OfferingIds == 1..MaxOfferings
CReqIds == 1..MaxCReqs

NoOffering == [exists |-> FALSE, facilitatorId |-> 0, status |-> "draft", isActive |-> FALSE]

\* the offerings that exist when the server starts: each with the
\* facilitator of the seed data, the first a draft, the second active
SeedOffering(a) ==
    [exists |-> TRUE, facilitatorId |-> AllocFacilitator(a),
     status |-> IF a = 1 THEN "draft" ELSE "active", isActive |-> TRUE]

\* facilitators.isAvailable and facilitators.maxCourseLoad
isAvailable(f) == f = 1
maxCourseLoad(f) == IF f = 1 THEN 2 ELSE 1

\* req.body of the three routes: the columns it names
NoCBody == [setFac |-> FALSE, facilitatorId |-> 0, setStatus |-> FALSE, status |-> "draft",
            setActive |-> FALSE, isActive |-> TRUE]

IdleCReq == [pc |-> "idle", kind |-> "none", id |-> 0, body |-> NoCBody,
             inst |-> NoOffering, status |-> 0, threw |-> FALSE]

CDone(kind, id, body, st, threw) ==
    [IdleCReq EXCEPT !.pc = "done", !.kind = kind, !.id = id, !.body = body,
                     !.status = st, !.threw = threw]

\* the state after seeding, with the day the clock starts on, the
\* recent-notifications list and the instance under computation as given
InitWith(days, recent0, calc0) ==
    /\ now \in days
    /\ db = [r \in RecIds |-> IF r = 1 THEN SeedRow ELSE NoRow]
    /\ req = [q \in ReqIds |-> IdleReq]
    /\ jobs = <<>>
    /\ userActive = [m \in Managers |-> TRUE]
    /\ allocs = AllocIds
    /\ notifLog = EmptyBag
    /\ recent = recent0
    /\ createdAt = [r \in RecIds |-> IF r = 1 THEN SeedCreatedAt ELSE 0]
    /\ sched = NoRun
    /\ logCalls = [c \in LogCallIds |-> IdleCall]
    /\ calc = calc0
    /\ offerings = [a \in OfferingIds |-> IF a \in AllocIds THEN SeedOffering(a)
                                         ELSE NoOffering]
    /\ creq = [q \in CReqIds |-> IdleCReq]

\* the server starts on one of the last two days of the window
Init == InitWith((MaxDay - 1)..MaxDay, <<>>, SeedCalc)

\* requests are numbered in the order they arrive
Arrives(q) == \A p \in ReqIds : p < q => req[p].pc # "idle"

Next ==
    \/ Tick
    \/ \E q \in ReqIds, c \in Callers, id \in RecIds : Arrives(q) /\ SubmitStart(q, c, id)
    \/ \E q \in ReqIds : SubmitSave(q)
    \/ \E q \in ReqIds, c \in Callers, id \in RecIds, b \in PutBodies :
           Arrives(q) /\ PutStart(q, c, id, b)
    \/ \E q \in ReqIds : PutUpdate(q)
    \/ \E q \in ReqIds : Respond(q)
    \/ \E q \in ReqIds, c \in Callers, b \in PostBodies : Arrives(q) /\ PostStart(q, c, b)
    \/ \E q \in ReqIds : PostInsert(q)

Spec == Init /\ [][Next]_vars

\* the continuation of request q after an await
Continue(q) == SubmitSave(q) \/ PutUpdate(q) \/ Respond(q) \/ PostInsert(q)

\* app.js: startServer() authenticates the database and listens.  It does
\* not call setupQueues(), and nothing else does, so the running
\* application has the request handlers and no processor on any queue; the
\* event loop runs every continuation that is ready.
SpecApp == Init /\ [][Next]_vars /\ \A q \in ReqIds : WF_vars(Continue(q))

----------------------------------------------------------------------------
(* Properties of the activity-log handlers (Spec) *)

\* C1: submittedAt is written at most once: once a row's submittedAt is
\* non-null, no create, update or submit request changes it or nulls it.
C1_SubmittedAtWrittenOnce ==
    [][\A r \in RecIds :
          (db[r].exists /\ db[r].submittedAt # NULL)
              => db'[r].submittedAt = db[r].submittedAt]_vars

\* C2: a submit request by a caller allowed to touch the row, arriving when
\* the row's submittedAt is non-null, is answered 400 at once, with the row
\* and the queues untouched; and no request reaches the call of submit()
\* with an instance it loaded as submitted.
C2_DuplicateSubmitRejected ==
    /\ [][\A q \in ReqIds :
            (/\ req[q].pc = "idle"
             /\ req'[q].kind = "submit"
             /\ db[req'[q].id].exists
             /\ db[req'[q].id].submittedAt # NULL
             /\ ~AccessDenied(req'[q].caller, db[req'[q].id]))
            => (/\ req'[q].pc = "done"
                /\ req'[q].status = 400
                /\ db' = db
                /\ jobs' = jobs)]_vars
    /\ [](\A q \in ReqIds :
            (req[q].kind = "submit" /\ req[q].pc = "submit")
                => req[q].inst.submittedAt = NULL)

\* a duplicate submission has been answered 400
C2_Witness ==
    \E q \in ReqIds :
        /\ req[q].kind = "submit" /\ req[q].pc = "done" /\ req[q].status = 400
        /\ db[req[q].id].submittedAt # NULL

\* C3: the check and the write are separate steps: a request that passed
\* the check writes the timestamp whatever the row holds by then, and goes
\* on to its 200 response, so two interleaved requests both write.
C3_CheckThenWriteNotAtomic ==
    [][\A q \in ReqIds :
          (req[q].kind = "submit" /\ req[q].pc = "submit" /\ req'[q] # req[q])
              => (/\ db'[req[q].id].submittedAt = now
                  /\ req'[q].pc = "respond")]_vars

\* two submit requests for one row have both succeeded, the second one
\* overwriting the timestamp of the first
C3_Witness ==
    \E p \in ReqIds, q \in ReqIds :
        /\ p # q
        /\ req[p].kind = "submit" /\ req[q].kind = "submit"
        /\ req[p].id = req[q].id
        /\ req[p].pc = "done" /\ req[p].status = 200
        /\ req[q].pc = "done" /\ req[q].status = 200

\* C4: a row whose submittedAt is non-null is never overdue, whatever its
\* week number and whatever the instant of the evaluation.
C4_SubmittedNeverOverdue ==
    \A r \in RecIds, t \in 0..MaxDay :
        (db[r].exists /\ db[r].submittedAt # NULL)
            => ~isOverdue(db[r].submittedAt, db[r].weekNumber, t, t)

\* a submitted row whose deadline has passed
C4_Witness ==
    \E r \in RecIds :
        /\ db[r].exists /\ db[r].submittedAt # NULL
        /\ now > getDeadline(db[r].weekNumber, now)

\* C5: for a row whose submittedAt is null, isOverdue() at instant t is
\* true exactly when t is later than getDeadline() at t.
C5_OverdueIffPastDeadline ==
    \A r \in RecIds, t \in 0..MaxDay :
        (db[r].exists /\ db[r].submittedAt = NULL)
            => (isOverdue(db[r].submittedAt, db[r].weekNumber, t, t)
                    <=> t > getDeadline(db[r].weekNumber, t))

\* an unsubmitted row that is overdue now, and was not at the start of
\* the week
C5_Witness ==
    \E r \in RecIds :
        /\ db[r].exists /\ db[r].submittedAt = NULL
        /\ isOverdue(db[r].submittedAt, db[r].weekNumber, now, now)
        /\ ~isOverdue(db[r].submittedAt, db[r].weekNumber, 0, 0)

\* C6: a submit request that saved the row after its deadline has enqueued
\* a late-submission alert by the time it is about to respond.
C6_LateSubmitAlerts ==
    \A q \in ReqIds :
        (/\ req[q].kind = "submit"
         /\ req[q].pc = "respond"
         /\ req[q].inst.submittedAt >
                getDeadline(req[q].inst.weekNumber, req[q].inst.submittedAt))
        => \E j \in 1..Len(jobs) :
              /\ jobs[j].name = "manager-alert"
              /\ jobs[j].type = "late-submission"
              /\ jobs[j].by = q

\* C13: no two records ever share (allocationId, weekNumber), whatever the
\* interleaving of the requests; a create request that passes validation
\* and the ownership check for a pair that already has a record is
\* answered 409 and adds no record, be it caught by the handler's findOne
\* or, after a concurrent create, by the unique index.
C13_OneRecordPerAllocationWeek ==
    /\ [](\A r1 \in RecIds, r2 \in RecIds :
            (r1 # r2 /\ db[r1].exists /\ db[r2].exists)
            => ~(/\ db[r1].allocationId = db[r2].allocationId
                 /\ db[r1].weekNumber = db[r2].weekNumber))
    /\ [][\A q \in ReqIds, c \in Callers, b \in PostBodies :
            (/\ PostStart(q, c, b)
             /\ b.weekNumber >= 1 /\ b.weekNumber <= 20
             /\ (c.role = "manager" \/ AllocFacilitator(b.allocationId) = c.fac)
             /\ \E r \in RecIds : /\ db[r].exists
                                   /\ db[r].allocationId = b.allocationId
                                   /\ db[r].weekNumber = b.weekNumber)
            => (req'[q].pc = "done" /\ req'[q].status = 409 /\ db' = db)]_vars
    /\ [][\A q \in ReqIds :
            (/\ req[q].pc = "insert"
             /\ req'[q] # req[q]
             /\ \E r \in RecIds : /\ db[r].exists
                                   /\ db[r].allocationId = req[q].body.allocationId
                                   /\ db[r].weekNumber = req[q].body.weekNumber)
            => (req'[q].pc = "done" /\ req'[q].status = 409 /\ db' = db)]_vars

\* two create requests ran concurrently for one pair: one was answered
\* 201, the other 409, and the table holds one record for the pair
C13_Witness ==
    \E p \in ReqIds, q \in ReqIds :
        /\ req[p].kind = "post" /\ req[p].pc = "done" /\ req[p].status = 201
        /\ req[q].kind = "post" /\ req[q].pc = "done" /\ req[q].status = 409
        /\ Cardinality({r \in RecIds : db[r].exists}) = 2

----------------------------------------------------------------------------
(* notificationService.js: the log and the three processors *)

RecentStop == 99

JobIds == 1..Len(jobs)

\* the rows the reminder processor resolves (seed data)
AllocModule(a) == 10 + a
AllocCohort(a) == 20 + a
AllocClass(a) == 30 + a

\* a processor with a case for the alert on courses without a facilitator
AlertTypesWithUnassigned ==
    {"overdue-submission", "late-submission", "critical-deadline", "unassigned-course"}

\* the cases of the switch in the manager-alert processor
AlertTypes == {"overdue-submission", "late-submission", "critical-deadline"}

\* outcomes of the three Redis calls of logNotification; every error is
\* caught and swallowed by logNotification itself
LogOutcomes == {"ok", "setExError", "lPushError", "lTrimError"}

\* redisClient.lTrim(key, start, stop)
lTrim(list, start, stop) ==
    SubSeq(list, start + 1, IF Len(list) < stop + 1 THEN Len(list) ELSE stop + 1)

\* logNotification(entry): setEx of the keyed entry, lPush, lTrim(0, 99)
logNotificationKeys(log, entry, j, out) ==
    IF out = "setExError" THEN log
    ELSE log (+) SetToBag({[type |-> entry.type, status |-> entry.status, job |-> j]})

logNotificationList(list, entry, out) ==
    IF out \in {"setExError", "lPushError"} THEN list
    ELSE IF out = "lTrimError" THEN <<entry>> \o list
    ELSE lTrim(<<entry>> \o list, 0, RecentStop)

\* a queue that never retries
ThrowNoRetry(job) == [job EXCEPT !.attemptsMade = @ + 1, !.state = "failed"]

\* Bull: a processor that throws costs one attempt; the job is retried
\* while attempts remain and is moved to failed after the last one
Throw(job) ==
    [job EXCEPT !.attemptsMade = @ + 1,
                !.state = IF job.attemptsMade + 1 < job.attempts THEN "waiting" ELSE "failed"]

LostLog(job, out) == [job EXCEPT !.logErrs = IF out = "setExError" THEN @ + 1 ELSE @]

\* emailQueue.process('send-email'): sendMail, log 'sent'; on error log
\* 'failed' and rethrow
ProcessEmail(j, sendOk, out) ==
    /\ j \in JobIds
    /\ jobs[j].name = "send-email"
    /\ jobs[j].state = "waiting"
    /\ LET entry == [type |-> "email", status |-> IF sendOk THEN "sent" ELSE "failed",
                     recipient |-> jobs[j].to]
           job1 == LostLog(jobs[j], out)
       IN /\ notifLog' = logNotificationKeys(notifLog, entry, j, out)
          /\ recent' = logNotificationList(recent, entry, out)
          /\ jobs' = [jobs EXCEPT ![j] = IF sendOk THEN [job1 EXCEPT !.state = "completed"]
                                         ELSE Throw(job1)]
    /\ UNCHANGED <<now, db, req, userActive, allocs,
                   createdAt, sched, logCalls, calc, offerings, creq>>

\* reminderQueue.process('facilitator-reminder').  ext is what the
\* collaborators do on this attempt: "ok", or the call that rejects
ProcessReminder(j, ext, out) ==
    /\ j \in JobIds
    /\ jobs[j].name = "facilitator-reminder"
    /\ jobs[j].state = "waiting"
    /\ LET job == jobs[j]
           found == job.facilitatorId \in FacilitatorIds /\ job.allocationId \in allocs
           entry == [type |-> "reminder", status |-> "queued",
                     recipient |-> <<"facilitator", job.facilitatorId>>]
           text == [week |-> job.weekNumber, module |-> AllocModule(job.allocationId),
                    cohort |-> AllocCohort(job.allocationId),
                    class |-> AllocClass(job.allocationId)]
       IN IF ext = "findError" \/ ~found \/ ext = "addError"
          THEN /\ jobs' = [jobs EXCEPT ![j] = Throw(job)]
               /\ UNCHANGED <<notifLog, recent>>
          ELSE /\ jobs' = queueEmail([jobs EXCEPT ![j] = [LostLog(job, out) EXCEPT
                                                            !.state = "completed"]],
                                     <<"facilitator", job.facilitatorId>>, "reminder",
                                     text, 0, j)
               /\ notifLog' = logNotificationKeys(notifLog, entry, j, out)
               /\ recent' = logNotificationList(recent, entry, out)
    /\ UNCHANGED <<now, db, req, userActive, allocs,
                   createdAt, sched, logCalls, calc, offerings, creq>>

\* the managers in the order Manager.findAll returns them
RECURSIVE SetToSeq(_)
SetToSeq(S) ==
    IF S = {} THEN <<>>
    ELSE LET m == CHOOSE x \in S : \A y \in S : x <= y
         IN  <<m>> \o SetToSeq(S \ {m})

\* the queueEmail calls of the loop over managers, the first k of them
RECURSIVE FanOut(_, _, _, _, _)
FanOut(q, managers, k, type, parent) ==
    IF k = 0 THEN q
    ELSE queueEmail(FanOut(q, managers, k - 1, type, parent),
                    <<"manager", managers[k]>>, "alert", NoText, 0, parent)

\* alertQueue.process('manager-alert').  ext = "findError": Manager.findAll
\* rejects; otherwise the loop runs and the k+1-th queueEmail rejects
\* (k = number of managers: none rejects)
ProcessAlert(j, ext, k, out) ==
    /\ j \in JobIds
    /\ jobs[j].name = "manager-alert"
    /\ jobs[j].state = "waiting"
    /\ LET job == jobs[j]
           managers == SetToSeq({m \in DOMAIN userActive : userActive[m]})
           known == job.type \in AlertTypes
           entry == [type |-> "alert", status |-> "queued", recipient |-> <<"all-managers", 0>>]
       IN IF ext = "findError"
          THEN /\ jobs' = [jobs EXCEPT ![j] = Throw(job)]
               /\ UNCHANGED <<notifLog, recent>>
          ELSE /\ k \in 0..Len(managers)
               /\ IF known /\ k < Len(managers)
                  THEN /\ jobs' = FanOut([jobs EXCEPT ![j] =
                                            Throw([job EXCEPT !.snap = {m \in DOMAIN userActive : userActive[m]}])],
                                         managers, k, job.type, j)
                       /\ UNCHANGED <<notifLog, recent>>
                  ELSE /\ k = Len(managers)
                       /\ jobs' = FanOut([jobs EXCEPT ![j] =
                                            [LostLog(job, out) EXCEPT
                                               !.state = "completed",
                                               !.snap = {m \in DOMAIN userActive : userActive[m]}]],
                                         managers, IF known THEN k ELSE 0, job.type, j)
                       /\ notifLog' = logNotificationKeys(notifLog, entry, j, out)
                       /\ recent' = logNotificationList(recent, entry, out)
    /\ UNCHANGED <<now, db, req, userActive, allocs,
                   createdAt, sched, logCalls, calc, offerings, creq>>

----------------------------------------------------------------------------
(* The overdue scanner and the recurring jobs *)

MaxRuns == 1        \* runs of the recurring jobs in one behaviour
MaxScanReqs == 1    \* HTTP requests in a behaviour with recurring jobs

ScanReqIds == 1..MaxScanReqs

\* a scanner that applies the deadline of each record
findOverdueByDeadline(rows, created, t) ==
    {r \in RecIds : /\ rows[r].exists
                    /\ isOverdue(rows[r].submittedAt, rows[r].weekNumber, t, t)}

\* ActivityTracker.findOverdue, called when the clock reads t
findOverdue(rows, created, t) ==
    {r \in RecIds : /\ rows[r].exists
                    /\ rows[r].submittedAt = NULL
                    /\ created[r] < t - OverdueAgeDays}

\* ActivityTracker.findPendingSubmission
findPendingSubmission(rows) ==
    {r \in RecIds : rows[r].exists /\ rows[r].submittedAt = NULL}

\* a filter that lets the day of the deadline itself through
dueSoonInclusive(weekNumber, t) ==
    LET daysUntilDeadline == getDeadline(weekNumber, t) - t
    IN  daysUntilDeadline <= DueSoonDays /\ daysUntilDeadline >= 0

\* the filter of sendWeeklyDeadlineReminders on one record
dueSoon(weekNumber, t) ==
    LET daysUntilDeadline == getDeadline(weekNumber, t) - t
    IN  daysUntilDeadline <= DueSoonDays /\ daysUntilDeadline > 0

\* String(n) of a row id used as an object key: its decimal digits
RECURSIVE keyOf(_)
keyOf(n) == IF n < 10 THEN <<n>> ELSE Append(keyOf(n \div 10), n % 10)

\* parseInt(key)
RECURSIVE parseInt(_)
parseInt(k) ==
    IF Len(k) = 0 THEN 0
    ELSE 10 * parseInt(SubSeq(k, 1, Len(k) - 1)) + k[Len(k)]

\* Object.entries(facilitatorGroups) flattened: integer keys come in
\* ascending order, the records of one key in the order of the query
RECURSIVE GroupedSeq(_, _)
GroupedSeq(rows, S) ==
    IF S = {} THEN <<>>
    ELSE LET r == CHOOSE x \in S : \A y \in S :
                      \/ rows[x].facilitatorId < rows[y].facilitatorId
                      \/ rows[x].facilitatorId = rows[y].facilitatorId /\ x <= y
         IN  <<r>> \o GroupedSeq(rows, S \ {r})

\* the records of the weekly query: order: [['weekNumber', 'ASC']]
RECURSIVE ByWeek(_, _)
ByWeek(rows, S) ==
    IF S = {} THEN <<>>
    ELSE LET r == CHOOSE x \in S : \A y \in S :
                      \/ rows[x].weekNumber < rows[y].weekNumber
                      \/ rows[x].weekNumber = rows[y].weekNumber /\ x <= y
         IN  <<r>> \o ByWeek(rows, S \ {r})

\* the queueFacilitatorReminder calls of a loop over records, the first k
RECURSIVE AddReminders(_, _, _, _)
AddReminders(q, rows, order, k) ==
    IF k = 0 THEN q
    ELSE LET r == order[k]
         IN  queueFacilitatorReminder(AddReminders(q, rows, order, k - 1),
                                      parseInt(keyOf(rows[r].facilitatorId)),
                                      rows[r].weekNumber, rows[r].allocationId)

\* checkOverdueSubmissions().  ext names the call that rejects, if any; the
\* catch block swallows the error.  k reminders are added before
\* "reminderError"
RunDaily(ext, k) ==
    /\ sched.n < MaxRuns
    /\ LET scan == IF ext = "findError" THEN {} ELSE findOverdue(db, createdAt, now)
           order == GroupedSeq(db, scan)
           data == [NoData EXCEPT !.count = Cardinality(scan),
                                  !.facilitators = Cardinality({db[r].facilitatorId : r \in scan})]
       IN /\ IF ext = "reminderError" THEN k < Len(order) ELSE k = Len(order)
          /\ jobs' = IF scan = {} \/ ext = "alertError" THEN jobs
                     ELSE AddReminders(queueManagerAlert(jobs, "overdue-submission", data, 0),
                                       db, order, k)
          /\ sched' = [n |-> sched.n + 1, kind |-> "daily", scan |-> scan,
                       first |-> Len(jobs), ext |-> ext, day |-> now]
    /\ UNCHANGED <<now, db, req, userActive, allocs, notifLog, recent,
                   createdAt, logCalls, calc, offerings, creq>>

\* sendWeeklyDeadlineReminders(): the reminders first, the alert last
RunWeekly(ext, k) ==
    /\ sched.n < MaxRuns
    /\ LET pending == IF ext = "findError" THEN {} ELSE findPendingSubmission(db)
           filtered == {r \in pending : dueSoon(db[r].weekNumber, now)}
           order == ByWeek(db, filtered)
           data == [NoData EXCEPT !.count = Cardinality(filtered)]
           reminded == AddReminders(jobs, db, order, k)
       IN /\ IF ext = "reminderError" THEN k < Len(order) ELSE k = Len(order)
          /\ jobs' = IF filtered = {} \/ ext \in {"reminderError", "alertError"} THEN reminded
                     ELSE queueManagerAlert(reminded, "critical-deadline", data, 0)
          /\ sched' = [n |-> sched.n + 1, kind |-> "weekly", scan |-> filtered,
                       first |-> Len(jobs), ext |-> ext, day |-> now]
    /\ UNCHANGED <<now, db, req, userActive, allocs, notifLog, recent,
                   createdAt, logCalls, calc, offerings, creq>>

\* more than OverdueAgeDays go by with no request
Elapse ==
    /\ now <= MaxDay
    /\ now' = now + OverdueAgeDays + 1
    /\ UNCHANGED <<db, req, jobs, userActive, allocs, notifLog, recent,
                   createdAt, sched, logCalls, calc, offerings, creq>>

RunOutcomes == {"ok", "findError", "alertError", "reminderError"}

TheManager == [role |-> "manager", fac |-> 0]

\* no request is between its first and its last step
Quiet == \A p \in ReqIds : req[p].pc \in {"idle", "done"}

\* the recurring jobs, the clock, and requests that create, edit and submit
\* activity logs, one at a time
NextScan ==
    \/ Tick
    \/ Elapse
    \/ \E ext \in RunOutcomes, k \in 0..MaxRecs : RunDaily(ext, k)
    \/ \E ext \in RunOutcomes, k \in 0..MaxRecs : RunWeekly(ext, k)
    \/ \E q \in ScanReqIds, id \in RecIds :
           Arrives(q) /\ Quiet /\ SubmitStart(q, TheManager, id)
    \/ \E q \in ScanReqIds : SubmitSave(q)
    \/ \E q \in ScanReqIds, id \in RecIds, b \in PutBodies :
           Arrives(q) /\ Quiet /\ b.setWeek /\ b.weekNumber < MinWeek
                      /\ PutStart(q, TheManager, id, b)
    \/ \E q \in ScanReqIds : PutUpdate(q)
    \/ \E q \in ScanReqIds : Respond(q)
    \/ \E q \in ScanReqIds, c \in Callers, b \in PostBodies :
           Arrives(q) /\ Quiet /\ b.weekNumber \in MinWeek..MaxWeek
                      /\ b.allocationId \in AllocIds /\ PostStart(q, c, b)
    \/ \E q \in ScanReqIds : PostInsert(q)

InitScan == InitWith({0}, <<>>, SeedCalc)

SpecScan == InitScan /\ [][NextScan]_vars

----------------------------------------------------------------------------
(* Callers of the dispatcher, and the rows that change under the jobs *)

\* the jobs of one name added by a caller, not by a processor
Added(name) == Cardinality({j \in JobIds : jobs[j].name = name /\ jobs[j].parent = 0})

EnqueueEmail(optAttempts) ==
    /\ Added("send-email") < MaxEmailJobs
    /\ jobs' = queueEmail(jobs, <<"address", 0>>, "direct", NoText, optAttempts, 0)
    /\ UNCHANGED <<now, db, req, userActive, allocs, notifLog, recent,
                   createdAt, sched, logCalls, calc, offerings, creq>>

EnqueueReminder(f, w, a) ==
    /\ Added("facilitator-reminder") < MaxReminderJobs
    /\ jobs' = queueFacilitatorReminder(jobs, f, w, a)
    /\ UNCHANGED <<now, db, req, userActive, allocs, notifLog, recent,
                   createdAt, sched, logCalls, calc, offerings, creq>>

EnqueueAlert(type) ==
    /\ Added("manager-alert") < MaxAlertJobs
    /\ jobs' = queueManagerAlert(jobs, type, NoData, 0)
    /\ UNCHANGED <<now, db, req, userActive, allocs, notifLog, recent,
                   createdAt, sched, logCalls, calc, offerings, creq>>

\* PATCH /users/:id/activate and /deactivate on a manager's user
SetUserActive(m, b) ==
    /\ userActive[m] # b
    /\ userActive' = [userActive EXCEPT ![m] = b]
    /\ UNCHANGED <<now, db, req, jobs, allocs, notifLog, recent,
                   createdAt, sched, logCalls, calc, offerings, creq>>

\* DELETE /api/course-allocations/:id: refused while activity logs refer to it
DeleteAllocation(a) ==
    /\ a \in allocs
    /\ ~\E r \in RecIds : db[r].exists /\ db[r].allocationId = a
    /\ allocs' = allocs \ {a}
    /\ UNCHANGED <<now, db, req, jobs, userActive, notifLog, recent,
                   createdAt, sched, logCalls, calc, offerings, creq>>

InitNotify == InitWith({0}, <<>>, SeedCalc)

\* the delivery worker and the callers of queueEmail
NextEmail ==
    \/ \E o \in {0, 1} : EnqueueEmail(o)
    \/ \E j \in JobIds, sendOk \in BOOLEAN, out \in LogOutcomes : ProcessEmail(j, sendOk, out)

\* the reminder worker, its callers, and the rows it resolves
NextReminder ==
    \/ \E f \in FacilitatorIds \cup {3}, w \in {3}, a \in AllocIds : EnqueueReminder(f, w, a)
    \/ \E a \in AllocIds : DeleteAllocation(a)
    \/ \E j \in JobIds, ext \in {"ok", "findError", "addError"}, out \in LogOutcomes :
           ProcessReminder(j, ext, out)

\* the alert worker, its callers, and the rows it resolves
NextAlert ==
    \/ \E t \in AlertTypes \cup {"unassigned-course"} : EnqueueAlert(t)
    \/ \E m \in Managers, b \in BOOLEAN : SetUserActive(m, b)
    \/ \E j \in JobIds, ext \in {"ok", "findError"}, k \in 0..Cardinality(Managers),
          out \in LogOutcomes : ProcessAlert(j, ext, k, out)

SpecEmail == InitNotify /\ [][NextEmail]_vars
SpecReminder == InitNotify /\ [][NextReminder]_vars
SpecAlert == InitNotify /\ [][NextAlert]_vars

\* the alert worker while Manager.findAll answers
NextAlertFound ==
    \/ \E t \in AlertTypes \cup {"unassigned-course"} : EnqueueAlert(t)
    \/ \E m \in Managers, b \in BOOLEAN : SetUserActive(m, b)
    \/ \E j \in JobIds, k \in 0..Cardinality(Managers), out \in LogOutcomes :
           ProcessAlert(j, "ok", k, out)

SpecAlertFound == InitNotify /\ [][NextAlertFound]_vars

----------------------------------------------------------------------------
(* The handlers together with the workers that deliver what they enqueue *)

\* a queue's processor is registered with concurrency 1: it takes the
\* oldest job of its queue that is not finished
Oldest(j) ==
    \A i \in 1..(j - 1) :
        jobs[i].name = jobs[j].name => jobs[i].state \in {"completed", "failed"}

\* requests that edit and submit activity logs, one at a time, with the
\* alert worker and the delivery worker running beside them
NextPipeline ==
    \/ Tick
    \/ \E q \in ScanReqIds, id \in RecIds :
           Arrives(q) /\ Quiet /\ SubmitStart(q, TheManager, id)
    \/ \E q \in ScanReqIds : SubmitSave(q)
    \/ \E q \in ScanReqIds, id \in RecIds, b \in PutBodies :
           Arrives(q) /\ Quiet /\ PutStart(q, TheManager, id, b)
    \/ \E q \in ScanReqIds : PutUpdate(q)
    \/ \E q \in ScanReqIds : Respond(q)
    \/ \E j \in JobIds, ext \in {"ok", "findError"} :
           Oldest(j) /\ ProcessAlert(j, ext, Cardinality({m \in Managers : userActive[m]}), "ok")
    \/ \E j \in JobIds, sendOk \in BOOLEAN : Oldest(j) /\ ProcessEmail(j, sendOk, "ok")

SpecPipeline == Init /\ [][NextPipeline]_vars

----------------------------------------------------------------------------
(* The manager dashboard: submission compliance *)

\* a count that compares submittedAt with the deadline of the week in which
\* the record was submitted
submissionComplianceByDeadline(rows, t) ==
    LET all  == {r \in RecIds : rows[r].exists}
        sub  == {r \in all : rows[r].submittedAt # NULL}
        late == {r \in sub : rows[r].submittedAt >
                                 getDeadline(rows[r].weekNumber, rows[r].submittedAt)}
    IN  [totalLogs |-> Cardinality(all),
         submittedOnTime |-> Cardinality(sub \ late),
         submittedLate |-> Cardinality(late),
         overdue |-> Cardinality({r \in all \ sub :
                         isOverdue(rows[r].submittedAt, rows[r].weekNumber, t, t)})]

\* the forEach over allActivities: a record with a submittedAt counts as
\* late when its isOverdue() is true and as on time otherwise; one without
\* counts as overdue when its isOverdue() is true
submissionCompliance(rows, t) ==
    LET all  == {r \in RecIds : rows[r].exists}
        sub  == {r \in all : rows[r].submittedAt # NULL}
        late == {r \in sub : isOverdue(rows[r].submittedAt, rows[r].weekNumber, t, t)}
    IN  [totalLogs |-> Cardinality(all),
         submittedOnTime |-> Cardinality(sub \ late),
         submittedLate |-> Cardinality(late),
         overdue |-> Cardinality({r \in all \ sub :
                         isOverdue(rows[r].submittedAt, rows[r].weekNumber, t, t)})]

\* GET /dashboard/manager-stats: ActivityTracker.findAll and the loop
GetManagerStats ==
    /\ LET c == submissionCompliance(db, now)
       IN  calc' = [calc EXCEPT !.out =
                      [NoResult EXCEPT !.fn = "manager-stats",
                                       !.totalLogs = c.totalLogs,
                                       !.submittedOnTime = c.submittedOnTime,
                                       !.submittedLate = c.submittedLate,
                                       !.overdue = c.overdue]]
    /\ UNCHANGED <<now, db, req, jobs, userActive, allocs, notifLog, recent,
                   createdAt, sched, logCalls, offerings, creq>>

\* the dashboard beside requests that create, edit and submit activity
\* logs, one at a time
NextDashboard ==
    \/ Tick
    \/ \E q \in ReqIds, id \in RecIds : Arrives(q) /\ Quiet /\ SubmitStart(q, TheManager, id)
    \/ \E q \in ReqIds : SubmitSave(q)
    \/ \E q \in ReqIds, id \in RecIds, b \in PutBodies :
           Arrives(q) /\ Quiet /\ PutStart(q, TheManager, id, b)
    \/ \E q \in ReqIds : PutUpdate(q)
    \/ \E q \in ReqIds : Respond(q)
    \/ \E q \in ReqIds, c \in Callers, b \in PostBodies :
           Arrives(q) /\ Quiet /\ PostStart(q, c, b)
    \/ \E q \in ReqIds : PostInsert(q)
    \/ GetManagerStats

SpecDashboard == Init /\ [][NextDashboard]_vars

----------------------------------------------------------------------------
(* /api/course-allocations: create, update, assign-facilitator *)

\* Facilitator.prototype.getCurrentCourseLoad: count where facilitatorId
\* and isActive
getCurrentCourseLoad(rows, f) ==
    Cardinality({a \in OfferingIds : /\ rows[a].exists
                                     /\ rows[a].facilitatorId = f
                                     /\ rows[a].isActive})

\* Facilitator.prototype.canTakeMoreCourses
canTakeMoreCourses(rows, f) ==
    isAvailable(f) /\ getCurrentCourseLoad(rows, f) < maxCourseLoad(f)

\* the frame of the steps of these routes
AllocFrame ==
    UNCHANGED <<now, db, req, jobs, userActive, allocs, notifLog, recent,
                createdAt, sched, logCalls, calc>>

CArrives(q) == \A p \in CReqIds : p < q => creq[p].pc # "idle"

\* PATCH /:id/assign-facilitator up to Facilitator.findByPk
AssignStart(q, id, f) ==
    /\ creq[q].pc = "idle"
    /\ LET body == [NoCBody EXCEPT !.setFac = TRUE, !.facilitatorId = f]
           st == IF f = 0 THEN 400
                 ELSE IF ~offerings[id].exists THEN 404
                 ELSE IF f \notin FacilitatorIds THEN 400
                 ELSE 0
       IN creq' = [creq EXCEPT ![q] =
                     IF st # 0 THEN CDone("assign", id, body, st, FALSE)
                     ELSE [IdleCReq EXCEPT !.pc = "check", !.kind = "assign", !.id = id,
                                           !.body = body, !.inst = offerings[id]]]
    /\ UNCHANGED offerings
    /\ AllocFrame

\* await facilitator.canTakeMoreCourses() of the three routes
CheckLoad(q) ==
    /\ creq[q].pc = "check"
    /\ creq' = [creq EXCEPT ![q] =
                  IF canTakeMoreCourses(offerings, creq[q].body.facilitatorId)
                  THEN [creq[q] EXCEPT !.pc = "write"]
                  ELSE CDone(creq[q].kind, creq[q].id, creq[q].body, 400, FALSE)]
    /\ UNCHANGED offerings
    /\ AllocFrame

\* an assignment that does not look at the status
assignFacilitatorAnyStatus(rows, id, inst, facilitatorId) ==
    [rows |-> [rows EXCEPT ![id].facilitatorId = facilitatorId],
     inst |-> [inst EXCEPT !.facilitatorId = facilitatorId],
     threw |-> FALSE]

\* CourseOffering.prototype.assignFacilitator on the instance inst of row
\* id: throws unless this.status is 'draft', else sets this.facilitatorId
\* and saves the changed column
assignFacilitator(rows, id, inst, facilitatorId) ==
    IF inst.status # "draft"
    THEN [rows |-> rows, inst |-> inst, threw |-> TRUE]
    ELSE [rows |-> [rows EXCEPT ![id].facilitatorId = facilitatorId],
          inst |-> [inst EXCEPT !.facilitatorId = facilitatorId],
          threw |-> FALSE]

\* await allocation.assignFacilitator(facilitatorId), and the response; an
\* Error thrown in the handler is answered 500 by errorHandler
AssignSave(q) ==
    /\ creq[q].pc = "write"
    /\ creq[q].kind = "assign"
    /\ LET r == creq[q]
           out == assignFacilitator(offerings, r.id, r.inst, r.body.facilitatorId)
       IN /\ offerings' = out.rows
          /\ creq' = [creq EXCEPT ![q] =
                        [CDone("assign", r.id, r.body, IF out.threw THEN 500 ELSE 200, out.threw)
                            EXCEPT !.inst = out.inst]]
    /\ AllocFrame

\* POST /: a new combination of module, cohort and class, with or
\* without a facilitator
CreateStart(q, f) ==
    /\ creq[q].pc = "idle"
    /\ LET body == [NoCBody EXCEPT !.setFac = (f # 0), !.facilitatorId = f]
       IN creq' = [creq EXCEPT ![q] =
                     IF f # 0 /\ f \notin FacilitatorIds
                     THEN CDone("create", 0, body, 400, FALSE)
                     ELSE [IdleCReq EXCEPT !.pc = IF f # 0 THEN "check" ELSE "write",
                                           !.kind = "create", !.body = body]]
    /\ UNCHANGED offerings
    /\ AllocFrame

\* CourseOffering.create(allocationData): status and isActive take their
\* defaults
CreateInsert(q) ==
    /\ creq[q].pc = "write"
    /\ creq[q].kind = "create"
    /\ \E a \in OfferingIds :
          /\ ~offerings[a].exists
          /\ \A o \in OfferingIds : o < a => offerings[o].exists
          /\ offerings' = [offerings EXCEPT ![a] =
                 [exists |-> TRUE, facilitatorId |-> creq[q].body.facilitatorId,
                  status |-> "draft", isActive |-> TRUE]]
          /\ creq' = [creq EXCEPT ![q] = CDone("create", a, creq[q].body, 201, FALSE)]
    /\ AllocFrame

\* req.body of PUT /:id
CPutBodies ==
    {[NoCBody EXCEPT !.setFac = TRUE, !.facilitatorId = f] : f \in FacilitatorIds} \cup
    {[NoCBody EXCEPT !.setStatus = TRUE, !.status = st] : st \in {"draft", "active"}} \cup
    {[NoCBody EXCEPT !.setActive = TRUE, !.isActive = b] : b \in BOOLEAN}

\* PUT /:id up to Facilitator.findByPk
CUpdateStart(q, id, body) ==
    /\ creq[q].pc = "idle"
    /\ creq' = [creq EXCEPT ![q] =
                  IF ~offerings[id].exists THEN CDone("update", id, body, 404, FALSE)
                  ELSE [IdleCReq EXCEPT
                          !.pc = IF body.setFac /\ body.facilitatorId # offerings[id].facilitatorId
                                 THEN "check" ELSE "write",
                          !.kind = "update", !.id = id, !.body = body,
                          !.inst = offerings[id]]]
    /\ UNCHANGED offerings
    /\ AllocFrame

\* allocation.update(updateData): the columns named in the body
CUpdateSave(q) ==
    /\ creq[q].pc = "write"
    /\ creq[q].kind = "update"
    /\ LET b == creq[q].body
       IN offerings' = [offerings EXCEPT ![creq[q].id] =
             [@ EXCEPT !.facilitatorId = IF b.setFac THEN b.facilitatorId ELSE @,
                       !.status = IF b.setStatus THEN b.status ELSE @,
                       !.isActive = IF b.setActive THEN b.isActive ELSE @]]
    /\ creq' = [creq EXCEPT ![q] = CDone("update", creq[q].id, creq[q].body, 200, FALSE)]
    /\ AllocFrame

InitAlloc == InitWith({0}, <<>>, SeedCalc)

NextAlloc ==
    \/ \E q \in CReqIds, id \in OfferingIds, f \in {0} \cup FacilitatorIds \cup {3} :
           CArrives(q) /\ AssignStart(q, id, f)
    \/ \E q \in CReqIds : CheckLoad(q)
    \/ \E q \in CReqIds : AssignSave(q)
    \/ \E q \in CReqIds, f \in {0} \cup FacilitatorIds \cup {3} :
           CArrives(q) /\ CreateStart(q, f)
    \/ \E q \in CReqIds : CreateInsert(q)
    \/ \E q \in CReqIds, id \in OfferingIds, b \in CPutBodies :
           CArrives(q) /\ CUpdateStart(q, id, b)
    \/ \E q \in CReqIds : CUpdateSave(q)

SpecAlloc == InitAlloc /\ [][NextAlloc]_vars

----------------------------------------------------------------------------
(* The progress methods of an ActivityTracker instance *)

MaxAttendance == 2      \* the longest attendance array

IsDone(task) == task = "Done"
IsPending(task) == task = "Pending"
IsNotStarted(task) == task = "Not Started"
IsTrue(day) == day = TRUE

\* a progress whose percentage is taken over the tasks that were started
getOverallProgressOfStarted(inst) ==
    LET tasks == inst.tasks
        completed == Len(SelectSeq(tasks, IsDone))
        pending == Len(SelectSeq(tasks, IsPending))
        notStarted == Len(SelectSeq(tasks, IsNotStarted))
    IN  [NoResult EXCEPT !.fn = "getOverallProgress",
                         !.completed = completed, !.pending = pending,
                         !.notStarted = notStarted, !.total = Len(tasks),
                         !.num = completed * 100,
                         !.den = IF completed + pending = 0 THEN 1 ELSE completed + pending]

\* ActivityTracker.prototype.getOverallProgress
getOverallProgress(inst) ==
    LET tasks == inst.tasks
        completed == Len(SelectSeq(tasks, IsDone))
        pending == Len(SelectSeq(tasks, IsPending))
        notStarted == Len(SelectSeq(tasks, IsNotStarted))
    IN  [NoResult EXCEPT !.fn = "getOverallProgress",
                         !.completed = completed, !.pending = pending,
                         !.notStarted = notStarted, !.total = Len(tasks),
                         !.num = completed * 100, !.den = Len(tasks)]

\* ActivityTracker.prototype.isFullyCompleted
isFullyCompleted(inst) ==
    LET progress == getOverallProgress(inst)
    IN  [progress EXCEPT !.fn = "isFullyCompleted",
                         !.bool = (progress.completed = progress.total)]

\* a rate without the guard: .length of null throws, 0 / 0 is NaN
getAttendanceRateNoGuard(inst) ==
    IF ~inst.hasAttendance
    THEN [NoResult EXCEPT !.fn = "getAttendanceRate", !.threw = TRUE]
    ELSE [NoResult EXCEPT !.fn = "getAttendanceRate",
                          !.num = Len(SelectSeq(inst.attendance, IsTrue)) * 100,
                          !.den = Len(inst.attendance)]

\* ActivityTracker.prototype.getAttendanceRate
getAttendanceRate(inst) ==
    IF ~inst.hasAttendance \/ Len(inst.attendance) = 0
    THEN [NoResult EXCEPT !.fn = "getAttendanceRate", !.num = 0, !.den = 1]
    ELSE [NoResult EXCEPT !.fn = "getAttendanceRate",
                          !.num = Len(SelectSeq(inst.attendance, IsTrue)) * 100,
                          !.den = Len(inst.attendance)]

\* the attendance column: null, or an array of booleans
Attendances ==
    {[has |-> FALSE, days |-> <<>>]} \cup
    {[has |-> TRUE, days |-> a] : a \in UNION {[1..n -> BOOLEAN] : n \in 0..MaxAttendance}}

\* the instances the methods are called on
Instances ==
    {[SeedCalc EXCEPT !.tasks = t, !.hasAttendance = a.has, !.attendance = a.days] :
        t \in [TaskFields -> Statuses], a \in Attendances}

CallGetOverallProgress ==
    /\ calc' = [calc EXCEPT !.out = getOverallProgress(calc)]
    /\ UNCHANGED <<now, db, req, jobs, userActive, allocs, notifLog, recent,
                   createdAt, sched, logCalls, offerings, creq>>

CallIsFullyCompleted ==
    /\ calc' = [calc EXCEPT !.out = isFullyCompleted(calc)]
    /\ UNCHANGED <<now, db, req, jobs, userActive, allocs, notifLog, recent,
                   createdAt, sched, logCalls, offerings, creq>>

CallGetAttendanceRate ==
    /\ calc' = [calc EXCEPT !.out = getAttendanceRate(calc)]
    /\ UNCHANGED <<now, db, req, jobs, userActive, allocs, notifLog, recent,
                   createdAt, sched, logCalls, offerings, creq>>

InitProgress == \E i \in Instances : InitWith({0}, <<>>, i)

NextProgress ==
    \/ CallGetOverallProgress
    \/ CallIsFullyCompleted
    \/ CallGetAttendanceRate

SpecProgress == InitProgress /\ [][NextProgress]_vars

----------------------------------------------------------------------------
(* The date methods of an ActivityTracker instance *)

MaxClock == 13      \* the last day a method is called on
MaxWeekInput == 21  \* the largest week number of an instance

\* the week numbers of the instances: those the validation admits and those
\* a PUT /:id, which is not validated, can store below them
WeekNumbers == (0 - 1)..MaxWeekInput

\* a deadline that counts the weeks backwards from the current one
CallGetDeadlineShiftedBack ==
    /\ calc' = [calc EXCEPT !.out =
                  [NoResult EXCEPT !.fn = "getDeadline",
                                   !.date = now - getDay(now)
                                            - (calc.weekNumber - 1) * DaysPerWeek + GraceDays]]
    /\ UNCHANGED <<now, db, req, jobs, userActive, allocs, notifLog, recent,
                   createdAt, sched, logCalls, offerings, creq>>

\* this.getDeadline(), with the clock at `now`
CallGetDeadline ==
    /\ calc' = [calc EXCEPT !.out =
                  [NoResult EXCEPT !.fn = "getDeadline",
                                   !.date = getDeadline(calc.weekNumber, now)]]
    /\ UNCHANGED <<now, db, req, jobs, userActive, allocs, notifLog, recent,
                   createdAt, sched, logCalls, offerings, creq>>

\* an overdue test against the deadline of the week before
CallIsOverdueOfLastWeek(t2) ==
    /\ calc' = [calc EXCEPT !.out =
                  [NoResult EXCEPT !.fn = "isOverdue",
                                   !.bool = isOverdue(calc.submittedAt, calc.weekNumber - 1,
                                                      now, t2),
                                   !.date = t2]]
    /\ UNCHANGED <<now, db, req, jobs, userActive, allocs, notifLog, recent,
                   createdAt, sched, logCalls, offerings, creq>>

\* this.isOverdue(): weekStart is built from a clock read at `now`, the
\* comparison reads the clock again, on the same day or past midnight
CallIsOverdue(t2) ==
    /\ calc' = [calc EXCEPT !.out =
                  [NoResult EXCEPT !.fn = "isOverdue",
                                   !.bool = isOverdue(calc.submittedAt, calc.weekNumber, now, t2),
                                   !.date = t2]]
    /\ UNCHANGED <<now, db, req, jobs, userActive, allocs, notifLog, recent,
                   createdAt, sched, logCalls, offerings, creq>>

InitDeadline ==
    \E w \in WeekNumbers, sub \in {NULL, 0} :
        InitWith(0..MaxClock, <<>>, [SeedCalc EXCEPT !.weekNumber = w, !.submittedAt = sub])

NextDeadline ==
    \/ CallGetDeadline
    \/ \E t2 \in {now, now + 1} : CallIsOverdue(t2)

SpecDeadline == InitDeadline /\ [][NextDeadline]_vars

----------------------------------------------------------------------------
(* logNotification and getRecentNotifications, one Redis call at a time *)

MaxLimit == 2       \* the limits getRecentNotifications is asked with

\* the lengths the recent list starts with
StartLengths == {0, RecentStop, RecentStop + 1}

\* JSON.stringify: a property whose value is undefined is left out
JSONstringify(d) ==
    IF d.messageId = Undefined
    THEN [type |-> d.type, status |-> d.status, recipient |-> d.recipient,
          timestamp |-> d.timestamp]
    ELSE d

\* JSON.parse: a property that is not in the text reads as undefined
JSONparse(t) ==
    IF "messageId" \in DOMAIN t
    THEN t
    ELSE [type |-> t.type, status |-> t.status, recipient |-> t.recipient,
          messageId |-> Undefined, timestamp |-> t.timestamp]

\* a push at the tail of the list
rPush(list, v) == list \o <<v>>

\* redisClient.lPush(key, value)
lPush(list, v) == <<v>> \o list

\* redisClient.lRange(key, start, stop): both ends are included, an index
\* below 0 counts from the end of the list (-1 is the last element), and
\* an index past the end is cut to the end
lRange(list, start, stop) ==
    LET s == IF start >= 0 THEN start
             ELSE IF Len(list) + start < 0 THEN 0 ELSE Len(list) + start
        e == IF stop < 0 THEN Len(list) + stop
             ELSE IF Len(list) < stop + 1 THEN Len(list) - 1 ELSE stop
    IN  SubSeq(list, s + 1, e + 1)

\* getRecentNotifications(limit): lRange(0, limit - 1) and JSON.parse of
\* each element; [] when lRange rejects
getRecentNotifications(list, limit, ok) ==
    IF ~ok THEN <<>>
    ELSE LET got == lRange(list, 0, limit - 1)
         IN  [i \in 1..Len(got) |-> JSONparse(got[i])]

\* entries logged before the server started, the newest first
OldEntries(n) ==
    [i \in 1..n |-> JSONstringify([type |-> "email", status |-> "sent", recipient |-> 0,
                                   messageId |-> Undefined, timestamp |-> 0 - i])]

\* the number of lPush calls that have succeeded so far
Pushes == Cardinality({c \in LogCallIds : logCalls[c].pushed > 0})

\* logNotification(notificationData): logData is the data with a timestamp
\* read from the clock; recipient c stands for the mail the call is about
LogStart(c, status) ==
    /\ logCalls[c].pc = "idle"
    /\ \A p \in LogCallIds : p < c => logCalls[p].pc # "idle"
    /\ logCalls' = [logCalls EXCEPT ![c] =
           [IdleCall EXCEPT !.pc = "setEx",
                            !.data = [type |-> "email", status |-> status, recipient |-> c,
                                      messageId |-> IF status = "sent" THEN c ELSE Undefined,
                                      timestamp |-> now]]]
    /\ UNCHANGED <<now, db, req, jobs, userActive, allocs, notifLog, recent,
                   createdAt, sched, calc, offerings, creq>>

\* await redisClient.setEx(logKey, 604800, JSON.stringify(logData)); a
\* rejection ends the call in the catch block
LogSetEx(c, ok) ==
    /\ logCalls[c].pc = "setEx"
    /\ IF ok
       THEN /\ notifLog' = logNotificationKeys(notifLog, logCalls[c].data, c, "ok")
            /\ logCalls' = [logCalls EXCEPT ![c].pc = "lPush"]
       ELSE /\ logCalls' = [logCalls EXCEPT ![c].pc = "done", ![c].out = "setExError"]
            /\ UNCHANGED notifLog
    /\ UNCHANGED <<now, db, req, jobs, userActive, allocs, recent,
                   createdAt, sched, calc, offerings, creq>>

\* await redisClient.lPush('recent_notifications', JSON.stringify(logData))
LogLPush(c, ok) ==
    /\ logCalls[c].pc = "lPush"
    /\ IF ok
       THEN /\ recent' = lPush(recent, JSONstringify(logCalls[c].data))
            /\ logCalls' = [logCalls EXCEPT ![c].pc = "lTrim", ![c].pushed = Pushes + 1]
       ELSE /\ logCalls' = [logCalls EXCEPT ![c].pc = "done", ![c].out = "lPushError"]
            /\ UNCHANGED recent
    /\ UNCHANGED <<now, db, req, jobs, userActive, allocs, notifLog,
                   createdAt, sched, calc, offerings, creq>>

\* await redisClient.lTrim('recent_notifications', 0, 99), and the return
LogLTrim(c, ok) ==
    /\ logCalls[c].pc = "lTrim"
    /\ IF ok
       THEN /\ recent' = lTrim(recent, 0, RecentStop)
            /\ logCalls' = [logCalls EXCEPT ![c].pc = "done", ![c].out = "ok"]
       ELSE /\ logCalls' = [logCalls EXCEPT ![c].pc = "done", ![c].out = "lTrimError"]
            /\ UNCHANGED recent
    /\ UNCHANGED <<now, db, req, jobs, userActive, allocs, notifLog,
                   createdAt, sched, calc, offerings, creq>>

InitLog == \E n \in StartLengths : InitWith({0}, OldEntries(n), SeedCalc)

NextLog ==
    \/ Tick
    \/ \E c \in LogCallIds, status \in {"sent", "failed"} : LogStart(c, status)
    \/ \E c \in LogCallIds, ok \in BOOLEAN : LogSetEx(c, ok)
    \/ \E c \in LogCallIds, ok \in BOOLEAN : LogLPush(c, ok)
    \/ \E c \in LogCallIds, ok \in BOOLEAN : LogLTrim(c, ok)

SpecLog == InitLog /\ [][NextLog]_vars

\* no call of logNotification is between two of its Redis calls
LogQuiet == \A c \in LogCallIds : logCalls[c].pc \in {"idle", "done"}

\* GET /notifications?limit=n: getRecentNotifications(parseInt(limit));
\* the result keeps the limit and the number of entries returned
GetNotifications(n, ok) ==
    /\ calc' = [calc EXCEPT !.out =
                  [NoResult EXCEPT !.fn = "getRecentNotifications", !.num = n,
                                   !.total = Len(getRecentNotifications(recent, n, ok))]]
    /\ UNCHANGED <<now, db, req, jobs, userActive, allocs, notifLog, recent,
                   createdAt, sched, logCalls, offerings, creq>>

\* the dashboard reads the recent list between calls of logNotification
NextRecent ==
    \/ \E c \in LogCallIds, status \in {"sent", "failed"} : LogQuiet /\ LogStart(c, status)
    \/ \E c \in LogCallIds, ok \in BOOLEAN : LogSetEx(c, ok)
    \/ \E c \in LogCallIds, ok \in BOOLEAN : LogLPush(c, ok)
    \/ \E c \in LogCallIds, ok \in BOOLEAN : LogLTrim(c, ok)
    \/ \E n \in 0..MaxLimit, ok \in BOOLEAN : GetNotifications(n, ok)

SpecRecent == InitLog /\ [][NextRecent]_vars

----------------------------------------------------------------------------
(* Properties of the alert worker (SpecAlert) *)

\* C7: a manager-alert job of a known type that has completed, failed
\* attempts included, has produced exactly one send-email job for each
\* manager who was active when it was processed, and no other.
C7_AlertYieldsOneEmailPerManager ==
    \A j \in JobIds :
        (/\ jobs[j].name = "manager-alert"
         /\ jobs[j].type \in AlertTypes
         /\ jobs[j].state = "completed")
        => /\ \A m \in jobs[j].snap :
                 Cardinality({c \in JobIds : /\ jobs[c].parent = j
                                             /\ jobs[c].name = "send-email"
                                             /\ jobs[c].to = <<"manager", m>>}) = 1
           /\ Cardinality({c \in JobIds : jobs[c].parent = j}) = Cardinality(jobs[j].snap)

----------------------------------------------------------------------------
(* Properties of the reminder worker (SpecReminder) *)

\* C8: a facilitator-reminder job whose facilitator and allocation exist
\* produces, when an attempt on it runs, either nothing (a collaborator
\* rejected, the attempt is spent) or its completion together with one
\* send-email job; a completed reminder job has exactly one send-email job,
\* addressed to its facilitator's user email and carrying the job's week
\* number and the module, cohort and class of its allocation, and a reminder
\* job that has not completed has none.
C8_ReminderYieldsOneEmail ==
    /\ [][\A j \in JobIds :
            (/\ jobs[j].name = "facilitator-reminder"
             /\ jobs'[j] # jobs[j]
             /\ jobs[j].facilitatorId \in FacilitatorIds
             /\ jobs[j].allocationId \in allocs)
            => \/ /\ jobs'[j].state = "completed"
                  /\ Len(jobs') = Len(jobs) + 1
                  /\ jobs'[Len(jobs')].parent = j
               \/ /\ jobs'[j].state # "completed"
                  /\ jobs'[j].attemptsMade = jobs[j].attemptsMade + 1
                  /\ Len(jobs') = Len(jobs)]_vars
    /\ [](\A j \in JobIds :
            jobs[j].name = "facilitator-reminder"
            => IF jobs[j].state = "completed"
               THEN /\ Cardinality({c \in JobIds : jobs[c].parent = j}) = 1
                    /\ \A c \in JobIds :
                          jobs[c].parent = j
                          => /\ jobs[c].name = "send-email"
                             /\ jobs[c].to = <<"facilitator", jobs[j].facilitatorId>>
                             /\ jobs[c].text.week = jobs[j].weekNumber
                             /\ jobs[c].text.module = AllocModule(jobs[j].allocationId)
                             /\ jobs[c].text.cohort = AllocCohort(jobs[j].allocationId)
                             /\ jobs[c].text.class = AllocClass(jobs[j].allocationId)
               ELSE {c \in JobIds : jobs[c].parent = j} = {})

\* a reminder job that completed on its second attempt, with its one
\* send-email job waiting for the delivery worker
C8_Witness ==
    \E j \in JobIds, c \in JobIds :
        /\ jobs[j].name = "facilitator-reminder"
        /\ jobs[j].state = "completed"
        /\ jobs[j].attemptsMade = 1
        /\ jobs[c].parent = j
        /\ jobs[c].name = "send-email"
        /\ jobs[c].to = <<"facilitator", jobs[j].facilitatorId>>

\* C10: an attempt on a facilitator-reminder job whose facilitator or
\* allocation does not exist adds no job and writes no log entry; it costs
\* the job one attempt, leaves it waiting for its retry after the first and
\* failed after the second.
C10_MissingEntityFailsReminder ==
    [][\A j \in JobIds :
          (/\ jobs[j].name = "facilitator-reminder"
           /\ jobs'[j] # jobs[j]
           /\ (jobs[j].facilitatorId \notin FacilitatorIds \/ jobs[j].allocationId \notin allocs))
          => /\ Len(jobs') = Len(jobs)
             /\ notifLog' = notifLog
             /\ recent' = recent
             /\ jobs'[j].attemptsMade = jobs[j].attemptsMade + 1
             /\ jobs'[j].state = IF jobs'[j].attemptsMade = 2 THEN "failed" ELSE "waiting"]_vars

\* a reminder job whose facilitator or allocation is missing has failed
\* after two attempts, with no send-email job and no log entry of its own
C10_Witness ==
    \E j \in JobIds :
        /\ jobs[j].name = "facilitator-reminder"
        /\ (jobs[j].facilitatorId \notin FacilitatorIds \/ jobs[j].allocationId \notin allocs)
        /\ jobs[j].state = "failed"
        /\ jobs[j].attemptsMade = 2
        /\ {c \in JobIds : jobs[c].parent = j} = {}
        /\ \A e \in BagToSet(notifLog) : e.job # j

----------------------------------------------------------------------------
(* Properties of the delivery worker (SpecEmail) *)

\* C9: a send-email job that has failed was attempted exactly its
\* configured number of times, and exactly one 'failed' log entry was
\* written for it.
C9_ExhaustedEmailLogsOneFailure ==
    \A j \in JobIds :
        (jobs[j].name = "send-email" /\ jobs[j].state = "failed")
        => /\ jobs[j].attemptsMade = jobs[j].attempts
           /\ CopiesIn([type |-> "email", status |-> "failed", job |-> j], notifLog)
                  + jobs[j].logErrs = 1

----------------------------------------------------------------------------
(* Properties of the recurring jobs and the scanner (SpecScan) *)

\* C11: a run of the daily overdue check in which no call rejects adds
\* nothing when its scan returned no record; otherwise it adds exactly one
\* overdue-submission manager alert, whose count is the number of records
\* returned and whose facilitators is the number of distinct facilitators
\* among them, and exactly one facilitator reminder for each record.
C11_DailyCheckEnqueues ==
    [][(sched'.n = sched.n + 1 /\ sched'.kind = "daily" /\ sched'.ext = "ok")
       => LET S == sched'.scan
              new == (Len(jobs) + 1)..Len(jobs')
          IN  /\ SubSeq(jobs', 1, Len(jobs)) = jobs
              /\ IF S = {}
                 THEN jobs' = jobs
                 ELSE /\ Len(jobs') = Len(jobs) + 1 + Cardinality(S)
                      /\ Cardinality({j \in new : jobs'[j].name = "manager-alert"}) = 1
                      /\ \A j \in new :
                            jobs'[j].name = "manager-alert"
                            => /\ jobs'[j].type = "overdue-submission"
                               /\ jobs'[j].count = Cardinality(S)
                               /\ jobs'[j].facilitators =
                                      Cardinality({db[r].facilitatorId : r \in S})
                      /\ \A r \in S :
                            Cardinality({j \in new :
                                /\ jobs'[j].name = "facilitator-reminder"
                                /\ jobs'[j].facilitatorId = db[r].facilitatorId
                                /\ jobs'[j].weekNumber = db[r].weekNumber
                                /\ jobs'[j].allocationId = db[r].allocationId}) = 1]_vars

\* the daily check has just run over two overdue records of one
\* facilitator and added its three jobs
C11_Witness ==
    /\ sched.kind = "daily" /\ sched.ext = "ok"
    /\ Cardinality(sched.scan) = 2
    /\ Cardinality({db[r].facilitatorId : r \in sched.scan}) = 1
    /\ Len(jobs) = sched.first + 3

\* C12: a run of the weekly job in which no call rejects adds one
\* facilitator reminder for every unsubmitted record whose deadline lies
\* more than 0 and at most 3 days after the run, then exactly one
\* critical-deadline manager alert counting them if there is at least one,
\* and nothing if there is none.
C12_WeeklyJobEnqueues ==
    [][(sched'.n = sched.n + 1 /\ sched'.kind = "weekly" /\ sched'.ext = "ok")
       => LET F == {r \in RecIds : /\ db[r].exists
                                   /\ db[r].submittedAt = NULL
                                   /\ getDeadline(db[r].weekNumber, now) - now > 0
                                   /\ getDeadline(db[r].weekNumber, now) - now <= 3}
              new == (Len(jobs) + 1)..Len(jobs')
          IN  /\ SubSeq(jobs', 1, Len(jobs)) = jobs
              /\ IF F = {}
                 THEN jobs' = jobs
                 ELSE /\ Len(jobs') = Len(jobs) + Cardinality(F) + 1
                      /\ Cardinality({j \in new : jobs'[j].name = "manager-alert"}) = 1
                      /\ \A j \in new :
                            jobs'[j].name = "manager-alert"
                            => /\ jobs'[j].type = "critical-deadline"
                               /\ jobs'[j].count = Cardinality(F)
                      /\ \A r \in F :
                            Cardinality({j \in new :
                                /\ jobs'[j].name = "facilitator-reminder"
                                /\ jobs'[j].facilitatorId = db[r].facilitatorId
                                /\ jobs'[j].weekNumber = db[r].weekNumber
                                /\ jobs'[j].allocationId = db[r].allocationId}) = 1]_vars

\* the weekly job has just run on a Monday, found a record due the next
\* day and added a reminder and an alert
C12_Witness ==
    /\ sched.kind = "weekly" /\ sched.ext = "ok"
    /\ getDay(now) = 1
    /\ \E r \in sched.scan : getDeadline(db[r].weekNumber, now) - now = 1
    /\ Len(jobs) = sched.first + 2
    /\ jobs[Len(jobs)].type = "critical-deadline"

\* C18: findOverdue() returns exactly the records whose submittedAt is null
\* and that were created more than 16 days before the call, so never a
\* submitted record; the week number of a record has no part in it; and
\* this is the set the daily check works on.
C18_FindOverdueByAge ==
    /\ [](\A r \in RecIds :
            /\ r \in findOverdue(db, createdAt, now)
                  <=> (db[r].exists /\ db[r].submittedAt = NULL /\ now - createdAt[r] > 16)
            /\ \A w \in WeekInputs :
                  findOverdue([db EXCEPT ![r].weekNumber = w], createdAt, now)
                      = findOverdue(db, createdAt, now))
    /\ [][(sched'.n = sched.n + 1 /\ sched'.kind = "daily" /\ sched'.ext # "findError")
          => sched'.scan = {r \in RecIds : /\ db[r].exists
                                           /\ db[r].submittedAt = NULL
                                           /\ now - createdAt[r] > 16}]_vars

\* the scan returns one unsubmitted record and leaves out another, created
\* within the last 16 days
C18_Witness ==
    \E r1 \in RecIds, r2 \in RecIds :
        /\ r1 \in findOverdue(db, createdAt, now)
        /\ db[r2].exists /\ db[r2].submittedAt = NULL
        /\ now - createdAt[r2] <= 16
        /\ r2 \notin findOverdue(db, createdAt, now)

\* C19: the scanner and the instance method disagree.  A record the scanner
\* returns is not overdue by isOverdue() unless its week number is below 1,
\* and a record that isOverdue() calls overdue is not returned by the
\* scanner while it is at most 16 days old.
C19_ScannerAndMethodDisagree ==
    \A r \in RecIds :
        /\ (r \in findOverdue(db, createdAt, now) /\ db[r].weekNumber >= MinWeek)
           => ~isOverdue(db[r].submittedAt, db[r].weekNumber, now, now)
        /\ (/\ db[r].exists
            /\ isOverdue(db[r].submittedAt, db[r].weekNumber, now, now)
            /\ now - createdAt[r] <= 16)
           => r \notin findOverdue(db, createdAt, now)

\* an unsubmitted record created more than 16 days ago is returned by the
\* scanner and is not overdue by its own method
C19_Witness ==
    \E r \in RecIds :
        /\ db[r].exists /\ db[r].submittedAt = NULL
        /\ now - createdAt[r] > 16
        /\ r \in findOverdue(db, createdAt, now)
        /\ ~isOverdue(db[r].submittedAt, db[r].weekNumber, now, now)

----------------------------------------------------------------------------
(* Properties of the notification log (SpecLog) *)

\* the call of the entry at position i of the recent list: 0 for an entry
\* logged before the server started
CallOf(e) == IF e.timestamp < 0 THEN 0 ELSE e.recipient

PushedAt(c) == IF c = 0 THEN 0 ELSE logCalls[c].pushed

C15_RecentListBounded ==
    [][\A c \in LogCallIds :
          (logCalls[c].pc # "done" /\ logCalls'[c].pc = "done")
          => Len(recent') <= RecentStop + 1]_vars

----------------------------------------------------------------------------
(* Properties of the progress methods (SpecProgress) *)

CountOf(status) == Cardinality({f \in TaskFields : calc.tasks[f] = status})

\* C16: for every assignment of the six task columns, getOverallProgress()
\* returns the number of columns with each status, total = 6, the three
\* counts adding up to 6, and completionPercentage = completed / 6 * 100,
\* which is 0 when nothing is Done and 100 when all six are;
\* isFullyCompleted() is true exactly when all six columns are Done.
C16_ProgressCounts ==
    /\ calc.out.fn \in {"getOverallProgress", "isFullyCompleted"}
       => /\ calc.out.completed = CountOf("Done")
          /\ calc.out.pending = CountOf("Pending")
          /\ calc.out.notStarted = CountOf("Not Started")
          /\ calc.out.total = 6
          /\ calc.out.completed + calc.out.pending + calc.out.notStarted = 6
          /\ calc.out.den > 0
          /\ calc.out.num * 6 = CountOf("Done") * 100 * calc.out.den
          /\ (CountOf("Not Started") = 6 => calc.out.num = 0)
          /\ (CountOf("Done") = 6 => calc.out.num = 100 * calc.out.den)
    /\ calc.out.fn = "isFullyCompleted"
       => (calc.out.bool <=> \A f \in TaskFields : calc.tasks[f] = "Done")

\* isFullyCompleted() has answered false for an instance with five columns
\* Done and one Pending
C16_Witness ==
    /\ calc.out.fn = "isFullyCompleted"
    /\ ~calc.out.bool
    /\ calc.out.completed = 5 /\ calc.out.pending = 1 /\ calc.out.notStarted = 0
    /\ calc.out.num = 500 /\ calc.out.den = 6

TrueDays == Cardinality({i \in 1..Len(calc.attendance) : calc.attendance[i]})

\* C17: getAttendanceRate() returns 0 and does not throw when the
\* attendance array is null or empty; otherwise it returns the number of
\* true entries over the number of entries, times 100, between 0 and 100.
C17_AttendanceRate ==
    calc.out.fn = "getAttendanceRate"
    => /\ ~calc.out.threw
       /\ calc.out.den > 0
       /\ IF ~calc.hasAttendance \/ Len(calc.attendance) = 0
          THEN calc.out.num = 0
          ELSE /\ calc.out.num * Len(calc.attendance) = TrueDays * 100 * calc.out.den
               /\ 0 <= calc.out.num /\ calc.out.num <= 100 * calc.out.den

\* the rate of a null attendance column has been computed
C17_Witness ==
    /\ calc.out.fn = "getAttendanceRate"
    /\ ~calc.hasAttendance
    /\ calc.out.num = 0 /\ ~calc.out.threw

----------------------------------------------------------------------------
(* Properties of the running application (SpecApp) *)

\* C20: under fair scheduling every job the running application enqueues
\* is eventually picked up and reaches a terminal state, completed or
\* failed.
C20_EveryJobTerminates ==
    \A j \in 1..MaxReqs :
        (Len(jobs) >= j) ~> (Len(jobs) >= j /\ jobs[j].state \in {"completed", "failed"})

----------------------------------------------------------------------------
(* Properties of the handlers beside the workers (SpecPipeline) *)

\* C21: the response and the record of a submit or update request do not
\* depend on what becomes of the notifications it enqueued.  A step that
\* moves a job leaves every request and every record as it is; a step of
\* a handler leaves the jobs already in the queue as they are and at most
\* appends a waiting manager-alert; a handler that has enqueued can
\* respond whatever the state of its job, and responds 200.
C21_ResponseIgnoresDelivery ==
    /\ [][/\ (\E j \in 1..Len(jobs) : jobs'[j] # jobs[j]) => (db' = db /\ req' = req)
          /\ (req' # req \/ db' # db)
             => /\ Len(jobs') >= Len(jobs)
                /\ SubSeq(jobs', 1, Len(jobs)) = jobs
                /\ \A j \in (Len(jobs) + 1)..Len(jobs') :
                      jobs'[j].name = "manager-alert" /\ jobs'[j].state = "waiting"
          /\ \A q \in ScanReqIds :
                (req[q].pc = "respond" /\ req'[q] # req[q])
                => (req'[q].pc = "done" /\ req'[q].status = 200 /\ db' = db)]_vars
    /\ [](\A q \in ScanReqIds : req[q].pc = "respond" => ENABLED Respond(q))

\* an update request has responded 200 after the alert it enqueued had
\* failed for good
C21_Witness ==
    \E q \in ScanReqIds, j \in 1..Len(jobs) :
        /\ req[q].kind = "put" /\ req[q].pc = "done" /\ req[q].status = 200
        /\ jobs[j].by = q /\ jobs[j].name = "manager-alert"
        /\ jobs[j].state = "failed"
        /\ db[req[q].id].weekNumber < MinWeek

----------------------------------------------------------------------------
(* Properties of the course allocations (SpecAlloc) *)

\* C22: assignFacilitator(id) on an offering whose status is 'draft' sets
\* facilitatorId to id, on the instance and in its row, and changes no
\* other row or column; on an offering of any other status it throws and
\* leaves facilitatorId, and every row, as it was.
C22_AssignOnlyToDraft ==
    [][\A q \in CReqIds :
          (creq[q].kind = "assign" /\ creq[q].pc = "write" /\ creq'[q].pc = "done")
          => IF creq[q].inst.status = "draft"
             THEN /\ ~creq'[q].threw
                  /\ creq'[q].inst.facilitatorId = creq[q].body.facilitatorId
                  /\ offerings' = [offerings EXCEPT
                                     ![creq[q].id].facilitatorId = creq[q].body.facilitatorId]
             ELSE /\ creq'[q].threw /\ creq'[q].status = 500
                  /\ creq'[q].inst.facilitatorId = creq[q].inst.facilitatorId
                  /\ offerings' = offerings]_vars

\* one assignment to a draft went through and one to an active offering
\* threw
C22_Witness ==
    \E p \in CReqIds, q \in CReqIds :
        /\ creq[p].kind = "assign" /\ creq[p].pc = "done" /\ creq[p].status = 200
        /\ offerings[creq[p].id].facilitatorId = creq[p].body.facilitatorId
        /\ creq[q].kind = "assign" /\ creq[q].pc = "done" /\ creq[q].threw
        /\ creq[q].inst.status = "active"
        /\ offerings[creq[q].id].facilitatorId # creq[q].body.facilitatorId

\* C30: after any sequence or interleaving of create, update and
\* assign-facilitator requests, no facilitator has more active offerings
\* than its maxCourseLoad, and no request has given an offering to a
\* facilitator that is not available.
C30_LoadWithinMax ==
    /\ [](\A f \in FacilitatorIds :
            getCurrentCourseLoad(offerings, f) <= maxCourseLoad(f))
    /\ [][\A a \in OfferingIds :
            (/\ offerings'[a].exists
             /\ offerings'[a].facilitatorId # 0
             /\ offerings'[a].facilitatorId # offerings[a].facilitatorId)
            => isAvailable(offerings'[a].facilitatorId)]_vars

----------------------------------------------------------------------------
(* Properties of the date methods (SpecDeadline) *)

\* the Sunday that starts the calendar week of day t
StartOfWeek(t) == CHOOSE s \in (t - 6)..t : s % 7 = 0

C24_NeverOverdueFromWeekOne ==
    /\ (calc.submittedAt = NULL /\ calc.weekNumber >= 1)
       => /\ getDeadline(calc.weekNumber, now) > now
          /\ (calc.out.fn = "getDeadline" => calc.out.date > now)
          /\ (calc.out.fn = "isOverdue" => ~calc.out.bool)
    /\ (calc.out.fn = "isOverdue" /\ calc.out.bool) => calc.weekNumber <= 0

\* isOverdue() has returned false for an unsubmitted instance of week 1
\* on the last day of the week, the comparison made past midnight
C24_Witness ==
    /\ calc.out.fn = "isOverdue" /\ ~calc.out.bool
    /\ calc.submittedAt = NULL /\ calc.weekNumber = 1
    /\ getDay(now) = 6 /\ calc.out.date = now + 1

----------------------------------------------------------------------------
(* The weekly job on its cron day (SpecScan) *)

ValidWeek(w) == w >= MinWeek /\ w <= MaxWeek

----------------------------------------------------------------------------
(* The late-submission alert of PUT /:id (Spec) *)

\* the step of request q is the update of PUT /:id and it enqueues a
\* late-submission alert
PutEnqueuesAlert(q) ==
    /\ req[q].kind = "put" /\ req[q].pc = "update" /\ req'[q].pc = "respond"
    /\ Len(jobs') = Len(jobs) + 1
    /\ jobs'[Len(jobs')].name = "manager-alert"
    /\ jobs'[Len(jobs')].type = "late-submission"

\* C26: whenever PUT /:id enqueues a late-submission alert, the record's
\* submittedAt is null before the update and null after it, and the update
\* is not one that sets submittedAt.
C26_PutAlertsOnlyUnsubmitted ==
    [][\A q \in ReqIds :
         PutEnqueuesAlert(q)
         => /\ db[req[q].id].submittedAt = NULL
            /\ db'[req[q].id].submittedAt = NULL
            /\ ~(req[q].body.setSub /\ req[q].body.submittedAt # NULL)]_vars

----------------------------------------------------------------------------
(* Properties of the alert worker while Manager.findAll answers
   (SpecAlertFound) *)

\* the 'alert' entries with status 'queued' written for job j
AlertLogged(j) ==
    CopiesIn([type |-> "alert", status |-> "queued", job |-> j], notifLog)

----------------------------------------------------------------------------
(* Properties of the manager dashboard (SpecDashboard) *)

\* C28: in the submission compliance of the manager dashboard submittedLate
\* is 0 and submittedOnTime is the number of records whose submittedAt is
\* not null, whatever the records and the instant of the request.
C28_NoneSubmittedLate ==
    [][calc'.out # calc.out
       => /\ calc'.out.fn = "manager-stats"
          /\ calc'.out.submittedLate = 0
          /\ calc'.out.submittedOnTime =
                 Cardinality({r \in RecIds : db[r].exists /\ db[r].submittedAt # NULL})]_vars

\* the dashboard has counted as on time a record that was submitted after
\* the deadline of its week
C28_Witness ==
    /\ calc.out.fn = "manager-stats"
    /\ calc.out.submittedLate = 0
    /\ calc.out.submittedOnTime =
          Cardinality({r \in RecIds : db[r].exists /\ db[r].submittedAt # NULL})
    /\ \E r \in RecIds :
          /\ db[r].exists /\ db[r].submittedAt # NULL
          /\ db[r].submittedAt > getDeadline(db[r].weekNumber, db[r].submittedAt)

----------------------------------------------------------------------------
(* The limit of getRecentNotifications (SpecRecent) *)

\* C29: for every limit n >= 0, getRecentNotifications(n) returns at most
\* n entries.
C29_AtMostLimitEntries ==
    calc.out.fn = "getRecentNotifications" => calc.out.total <= calc.out.num

====
